---- MODULE Spec2Model ----
(***************************************************************************)
(* Model of the workflow analyzer (analyzer.py) and of the Lambda handler  *)
(* that drives it (handler.py).                                            *)
(*                                                                         *)
(* A Python str is a sequence of one-character strings, so that split,     *)
(* startswith, slicing and the two regular expressions are computed the    *)
(* way the code computes them.  A decoded YAML value is a record with a    *)
(* tag t and one payload field per kind of value.  Mapping keys are atomic *)
(* strings: the code only looks keys up and copies them.                   *)
(***************************************************************************)
EXTENDS Naturals, Sequences, FiniteSets, TLC

(* ------------------------------ bounds -------------------------------- *)

MaxTokens == 3

MaxJobs == 3

MaxSteps == 2

MaxRecords == 2

(* --------------------------- decoded values --------------------------- *)

Str(s) == [t |-> "str", s |-> s, n |-> 0, e |-> <<>>, kv |-> <<>>]

Int(n) == [t |-> "int", s |-> <<>>, n |-> n, e |-> <<>>, kv |-> <<>>]

PyNone == [t |-> "none", s |-> <<>>, n |-> 0, e |-> <<>>, kv |-> <<>>]

Date == [t |-> "date", s |-> <<>>, n |-> 0, e |-> <<>>, kv |-> <<>>]

List(e) == [t |-> "list", s |-> <<>>, n |-> 0, e |-> e, kv |-> <<>>]

Dict(kv) == [t |-> "dict", s |-> <<>>, n |-> 0, e |-> <<>>, kv |-> kv]

Item(k, v) == [k |-> k, v |-> v]

IsStr(v) == v.t = "str"

IsList(v) == v.t = "list"

IsDict(v) == v.t = "dict"

\* Python truth value of a decoded value (the `if x:` tests).
Truthy(v) ==
    CASE v.t = "str" -> v.s # <<>>
      [] v.t = "int" -> v.n # 0
      [] v.t = "none" -> FALSE
      [] v.t = "list" -> v.e # <<>>
      [] v.t = "dict" -> v.kv # <<>>
      [] OTHER -> TRUE

\* dict.get(key, default)
Get(d, key, default) ==
    IF \E i \in 1..Len(d.kv) : d.kv[i].k = key
    THEN d.kv[CHOOSE i \in 1..Len(d.kv) :
                 /\ d.kv[i].k = key
                 /\ \A j \in 1..(i - 1) : d.kv[j].k # key].v
    ELSE default

(* ------------------------------ str ----------------------------------- *)

\* s[i:]
From(s, i) == SubSeq(s, i, Len(s))

\* s.startswith(p)
StartsWith(s, p) == Len(s) >= Len(p) /\ SubSeq(s, 1, Len(p)) = p

\* c in s
Contains(s, c) == \E i \in 1..Len(s) : s[i] = c

\* s.find(c) + 1: the first position of c in s, 0 when there is none
Find(s, c) ==
    IF Contains(s, c)
    THEN CHOOSE i \in 1..Len(s) : s[i] = c /\ \A j \in 1..(i - 1) : s[j] # c
    ELSE 0

RECURSIVE Split(_, _)
\* s.split(c): every occurrence of c separates two parts
Split(s, c) ==
    IF ~Contains(s, c) THEN <<s>>
    ELSE <<SubSeq(s, 1, Find(s, c) - 1)>> \o Split(From(s, Find(s, c) + 1), c)

DockerPrefix == <<"d", "o", "c", "k", "e", "r", ":", "/", "/">>

DotSlash == <<".", "/">>

DotDotSlash == <<".", ".", "/">>

(* ----------------------- the two patterns ----------------------------- *)

ShaLen == 40

HexLower == {"a", "b", "c", "d", "e", "f",
             "0", "1", "2", "3", "4", "5", "6", "7", "8", "9"}

Digits == {"0", "1", "2", "3", "4", "5", "6", "7", "8", "9"}

\* SHA_PATTERN.match(s) for ^[a-f0-9]{40}$ : in Python `$` matches at the end
\* of the string and also just before a newline that ends the string.
MatchSha(s) ==
    /\ \/ Len(s) = ShaLen
       \/ Len(s) = ShaLen + 1 /\ s[ShaLen + 1] = "\n"
    /\ \A i \in 1..ShaLen : s[i] \in HexLower

RECURSIVE SkipDigits(_, _)
\* The position after the longest run of digits of s starting at i (\d+ is greedy).
SkipDigits(s, i) ==
    IF i <= Len(s) /\ s[i] \in Digits THEN SkipDigits(s, i + 1) ELSE i

\* SEMVER_PATTERN.match(s) for ^v?\d+\.\d+\.\d+ : a match of a prefix of s
MatchSemver(s) ==
    LET a == IF Len(s) >= 1 /\ s[1] = "v" THEN 2 ELSE 1
        b == SkipDigits(s, a)
        c == SkipDigits(s, b + 1)
        d == SkipDigits(s, c + 1)
    IN /\ b > a
       /\ b <= Len(s) /\ s[b] = "."
       /\ c > b + 1
       /\ c <= Len(s) /\ s[c] = "."
       /\ d > c + 1

BranchNames == { <<"m", "a", "i", "n">>,
                 <<"m", "a", "s", "t", "e", "r">>,
                 <<"d", "e", "v", "e", "l", "o", "p">>,
                 <<"d", "e", "v">> }

_determine_pinning_strategy(version_ref) ==
    IF MatchSha(version_ref) THEN "sha"
    ELSE IF MatchSemver(version_ref) THEN "tag"
    ELSE IF version_ref \in BranchNames THEN "branch"
    ELSE "tag"

(* --------------------------- dependencies ----------------------------- *)

WorkflowDependency(type, name, version, pinning_strategy, raw_reference) ==
    [type |-> type, name |-> name, version |-> version,
     pinning_strategy |-> pinning_strategy, raw_reference |-> raw_reference]

\* A reference with more than one @ taken as name@ref as well.
IsNameAtRefLoose(parts) == Len(parts) >= 2

\* `len(parts) != 2` is the code's test for "not of the form name@ref"
IsNameAtRef(parts) == Len(parts) = 2

\* Returns a sequence: <<>> for None, <<dep>> for a dependency.
_extract_action_dependency(uses) ==
    IF ~Truthy(uses) \/ ~IsStr(uses) THEN <<>>
    ELSE IF StartsWith(uses.s, DockerPrefix) THEN
        LET container_image == From(uses.s, Len(DockerPrefix) + 1)
            colon == Contains(container_image, ":")
        IN << WorkflowDependency(
                "container",
                IF colon THEN Split(container_image, ":")[1] ELSE container_image,
                IF colon THEN Str(Split(container_image, ":")[2]) ELSE PyNone,
                IF colon THEN "tag" ELSE "unpinned",
                uses.s) >>
    ELSE IF StartsWith(uses.s, DotSlash) \/ StartsWith(uses.s, DotDotSlash) THEN <<>>
    ELSE LET parts == Split(uses.s, "@")
         IN IF ~IsNameAtRef(parts)
            THEN << WorkflowDependency("action", uses.s, PyNone, "unpinned", uses.s) >>
            ELSE << WorkflowDependency("action", parts[1], Str(parts[2]),
                                       _determine_pinning_strategy(parts[2]), uses.s) >>

\* The comprehension without its isinstance filter.
AllElements(e) == e

\* [r for r in runs_on if isinstance(r, str)]
StrElements(e) == SelectSeq(e, IsStr)

_extract_runner_dependencies(runs_on) ==
    LET runners == IF IsStr(runs_on) THEN <<runs_on>>
                   ELSE IF IsList(runs_on) THEN StrElements(runs_on.e)
                   ELSE <<>>
    IN [i \in 1..Len(runners) |->
          WorkflowDependency("runner", runners[i].s, PyNone, "unpinned", runners[i].s)]

\* The record both branches of _extract_container_dependencies build from an image string.
ImageDependency(image) ==
    LET image_parts == Split(image, ":")
    IN WorkflowDependency(
         "container",
         image_parts[1],
         IF Len(image_parts) > 1 THEN Str(image_parts[2]) ELSE PyNone,
         IF Len(image_parts) > 1 THEN "tag" ELSE "unpinned",
         image)

_extract_container_dependencies(container) ==
    IF IsStr(container) THEN << ImageDependency(container.s) >>
    ELSE IF IsDict(container) THEN
        LET image == Get(container, "image", PyNone)
        IN IF Truthy(image) /\ IsStr(image) THEN << ImageDependency(image.s) >> ELSE <<>>
    ELSE <<>>

(* ------------------------------ state --------------------------------- *)

VARIABLES
    \* one call of WorkflowAnalyzer.analyze_workflow
    workflow_content,   \* the text, as what yaml.safe_load makes of it
    pc,                 \* the call's position
    jobs,               \* workflow.get('jobs', {})
    job_index,          \* entries of jobs.items() taken so far
    steps,              \* job_config.get('steps', [])
    step_index,         \* elements of steps taken so far
    dependencies,
    jobs_list,
    total_steps,
    result,             \* the returned dictionary, once pc = "returned"
    exc,                \* the exception raised, once pc = "raised"
    \* one invocation of lambda_handler
    github_token,       \* whether GITHUB_TOKEN is set
    records,            \* event['Records']
    record_index,       \* records taken so far
    hpc,                \* the handler's position
    processed_count,
    failed_count,
    response,
    \* one direct call of a helper, as the unit tests make them
    arg,
    callee,
    ret

analyzerVars == <<workflow_content, pc, jobs, job_index, steps, step_index,
                  dependencies, jobs_list, total_steps, result, exc>>

handlerVars == <<github_token, records, record_index, hpc, processed_count,
                 failed_count, response>>

unitVars == <<arg, callee, ret>>

vars == <<analyzerVars, handlerVars, unitVars>>

NoResult == [workflow_name |-> PyNone, jobs |-> <<>>, total_steps |-> 0,
             dependencies |-> <<>>]

NoResponse == [statusCode |-> 0, processed |-> 0, failed |-> 0]

(* ----------------------- analyze_workflow ----------------------------- *)

workflow == workflow_content.root

job_config == jobs.kv[job_index].v

Raise(e) ==
    /\ pc' = "raised"
    /\ exc' = e

\* The new records put before the ones already there.
ExtendFront(list, items) == items \o list

\* dependencies.extend(items)
Extend(list, items) == list \o items

\* The walk without its isinstance test.
SkipNoJob(config) == FALSE

\* `if not isinstance(job_config, dict): continue`
SkipJob(config) == ~IsDict(config)

\* len(x): defined for str, list and dict only
HasLen(x) == x.t \in {"str", "list", "dict"}

PyLen(x) ==
    IF IsStr(x) THEN Len(x.s) ELSE IF IsList(x) THEN Len(x.e) ELSE Len(x.kv)

\* What `for step in x` yields: the elements of a list, the characters of a
\* str, the keys of a dict (a key is hashable, so it is never a dict).
Iterate(x) ==
    IF IsList(x) THEN x.e
    ELSE IF IsStr(x) THEN [i \in 1..Len(x.s) |-> Str(<<x.s[i]>>)]
    ELSE [i \in 1..Len(x.kv) |-> Str(<<>>)]

\* Lines 33-46: decode, check the root, set up the accumulators.
Load ==
    /\ pc = "load"
    /\ IF ~workflow_content.decodes
       THEN /\ Raise("ValueError: Invalid YAML")
            /\ UNCHANGED <<jobs, dependencies, jobs_list, total_steps>>
       ELSE IF ~IsDict(workflow)
       THEN /\ Raise("ValueError: Workflow must be a YAML dictionary")
            /\ UNCHANGED <<jobs, dependencies, jobs_list, total_steps>>
       ELSE /\ dependencies' = <<>>
            /\ jobs_list' = <<>>
            /\ total_steps' = 0
            /\ jobs' = Get(workflow, "jobs", Dict(<<>>))
            /\ pc' = "items"
            /\ UNCHANGED exc
    /\ job_index' = 0
    /\ step_index' = 0
    /\ steps' = List(<<>>)
    /\ result' = NoResult
    /\ UNCHANGED <<workflow_content, handlerVars, unitVars>>

\* Line 48: jobs.items() exists for a dict only.
JobsItems ==
    /\ pc = "items"
    /\ IF IsDict(jobs)
       THEN pc' = "for_job" /\ UNCHANGED exc
       ELSE Raise("AttributeError")
    /\ UNCHANGED <<workflow_content, jobs, job_index, steps, step_index,
                   dependencies, jobs_list, total_steps, result,
                   handlerVars, unitVars>>

\* Lines 48-52: take the next entry; skip it unless its value is a dict.
NextJob ==
    /\ pc = "for_job"
    /\ job_index < Len(jobs.kv)
    /\ job_index' = job_index + 1
    /\ IF SkipJob(jobs.kv[job_index + 1].v)
       THEN UNCHANGED <<pc, jobs_list>>
       ELSE /\ jobs_list' = Append(jobs_list, jobs.kv[job_index + 1].k)
            /\ pc' = "runs_on"
    /\ UNCHANGED <<workflow_content, jobs, steps, step_index, dependencies,
                   total_steps, result, exc, handlerVars, unitVars>>

\* Lines 55-58.
RunsOn ==
    /\ pc = "runs_on"
    /\ LET runs_on == Get(job_config, "runs-on", PyNone)
       IN dependencies' = IF Truthy(runs_on)
                          THEN Extend(dependencies, _extract_runner_dependencies(runs_on))
                          ELSE dependencies
    /\ pc' = "container"
    /\ UNCHANGED <<workflow_content, jobs, job_index, steps, step_index,
                   jobs_list, total_steps, result, exc, handlerVars, unitVars>>

\* Lines 61-64.
Container ==
    /\ pc = "container"
    /\ LET container == Get(job_config, "container", PyNone)
       IN dependencies' = IF Truthy(container)
                          THEN Extend(dependencies, _extract_container_dependencies(container))
                          ELSE dependencies
    /\ pc' = "steps"
    /\ UNCHANGED <<workflow_content, jobs, job_index, steps, step_index,
                   jobs_list, total_steps, result, exc, handlerVars, unitVars>>

\* Lines 67-68: len(steps) raises TypeError for None, a number, a date.
Steps ==
    /\ pc = "steps"
    /\ LET s == Get(job_config, "steps", List(<<>>))
       IN /\ steps' = s
          /\ IF HasLen(s)
             THEN /\ total_steps' = total_steps + PyLen(s)
                  /\ pc' = "for_step"
                  /\ UNCHANGED exc
             ELSE /\ Raise("TypeError")
                  /\ UNCHANGED total_steps
    /\ step_index' = 0
    /\ UNCHANGED <<workflow_content, jobs, job_index, dependencies, jobs_list,
                   result, handlerVars, unitVars>>

\* Lines 70-78: one turn of `for step in steps`.
Step ==
    /\ pc = "for_step"
    /\ step_index < PyLen(steps)
    /\ step_index' = step_index + 1
    /\ LET step == Iterate(steps)[step_index + 1]
           uses == Get(step, "uses", PyNone)
       IN dependencies' =
            IF IsDict(step) /\ Truthy(uses)
            THEN dependencies \o _extract_action_dependency(uses)
            ELSE dependencies
    /\ UNCHANGED <<workflow_content, pc, jobs, job_index, steps, jobs_list,
                   total_steps, result, exc, handlerVars, unitVars>>

\* The inner loop is exhausted: back to line 48.
EndSteps ==
    /\ pc = "for_step"
    /\ step_index = PyLen(steps)
    /\ pc' = "for_job"
    /\ UNCHANGED <<workflow_content, jobs, job_index, steps, step_index,
                   dependencies, jobs_list, total_steps, result, exc,
                   handlerVars, unitVars>>

\* Lines 80-85 (_dependency_to_dict copies the five fields of each record).
Return ==
    /\ pc = "for_job"
    /\ job_index = Len(jobs.kv)
    /\ result' = [workflow_name |-> Get(workflow, "name", PyNone),
                  jobs |-> jobs_list,
                  total_steps |-> total_steps,
                  dependencies |-> dependencies]
    /\ pc' = "returned"
    /\ UNCHANGED <<workflow_content, jobs, job_index, steps, step_index,
                   dependencies, jobs_list, total_steps, exc,
                   handlerVars, unitVars>>

analyze_workflow ==
    \/ Load
    \/ JobsItems
    \/ NextJob
    \/ RunsOn
    \/ Container
    \/ Steps
    \/ Step
    \/ EndSteps
    \/ Return

(* -------------------------- lambda_handler ---------------------------- *)

RECURSIVE JsonSerializable(_)
\* json.dumps raises TypeError on a value that is no str, number, None, list
\* or dict of such (yaml.safe_load also makes dates).
JsonSerializable(v) ==
    CASE v.t = "date" -> FALSE
      [] v.t = "list" -> \A i \in 1..Len(v.e) : JsonSerializable(v.e[i])
      [] v.t = "dict" -> \A i \in 1..Len(v.kv) : JsonSerializable(v.kv[i].v)
      [] OTHER -> TRUE

record == records[record_index]

\* The except clause, lines 144-148.
Except ==
    /\ failed_count' = failed_count + 1
    /\ hpc' = "for_record"
    /\ UNCHANGED processed_count

\* Lines 94-105.
Enter ==
    /\ hpc = "enter"
    /\ IF github_token
       THEN /\ processed_count' = 0
            /\ failed_count' = 0
            /\ hpc' = "for_record"
       ELSE /\ hpc' = "raised"
            /\ UNCHANGED <<processed_count, failed_count>>
    /\ UNCHANGED <<github_token, records, record_index, response,
                   analyzerVars, unitVars>>

\* Line 107: the next record.
NextRecord ==
    /\ hpc = "for_record"
    /\ record_index < Len(records)
    /\ record_index' = record_index + 1
    /\ hpc' = "parse"
    /\ UNCHANGED <<github_token, records, processed_count, failed_count,
                   response, analyzerVars, unitVars>>

\* Line 110: parse_sqs_event(record).
Parse ==
    /\ hpc = "parse"
    /\ IF record.parses
       THEN hpc' = "fetch" /\ UNCHANGED <<processed_count, failed_count>>
       ELSE Except
    /\ UNCHANGED <<github_token, records, record_index, response,
                   analyzerVars, unitVars>>

\* Lines 115-120: github_client.get_workflow_content(...).
Fetch ==
    /\ hpc = "fetch"
    /\ IF record.fetches
       THEN hpc' = "call" /\ UNCHANGED <<processed_count, failed_count>>
       ELSE Except
    /\ UNCHANGED <<github_token, records, record_index, response,
                   analyzerVars, unitVars>>

\* Line 123: the call of analyzer.analyze_workflow(workflow_content).
Analyze ==
    /\ hpc = "call"
    /\ workflow_content' = record.content
    /\ pc' = "load"
    /\ hpc' = "analyzing"
    /\ UNCHANGED <<jobs, job_index, steps, step_index, dependencies, jobs_list,
                   total_steps, result, exc, github_token, records,
                   record_index, processed_count, failed_count, response,
                   unitVars>>

\* Line 123: the call raised; any Exception lands in the except clause.
AnalyzeRaised ==
    /\ hpc = "analyzing"
    /\ pc = "raised"
    /\ Except
    /\ pc' = "idle"
    /\ UNCHANGED <<workflow_content, jobs, job_index, steps, step_index,
                   dependencies, jobs_list, total_steps, result, exc,
                   github_token, records, record_index, response, unitVars>>

\* Lines 123-142: the call returned; the result is printed with json.dumps.
AnalyzeReturned ==
    /\ hpc = "analyzing"
    /\ pc = "returned"
    /\ IF JsonSerializable(result.workflow_name)
       THEN /\ processed_count' = processed_count + 1
            /\ hpc' = "for_record"
            /\ UNCHANGED failed_count
       ELSE Except
    /\ pc' = "idle"
    /\ UNCHANGED <<workflow_content, jobs, job_index, steps, step_index,
                   dependencies, jobs_list, total_steps, result, exc,
                   github_token, records, record_index, response, unitVars>>

\* Lines 150-156.
Finish ==
    /\ hpc = "for_record"
    /\ record_index = Len(records)
    /\ response' = [statusCode |-> 200, processed |-> processed_count,
                    failed |-> failed_count]
    /\ hpc' = "done"
    /\ UNCHANGED <<github_token, records, record_index, processed_count,
                   failed_count, analyzerVars, unitVars>>

lambda_handler ==
    \/ Enter
    \/ NextRecord
    \/ Parse
    \/ Fetch
    \/ Analyze
    \/ AnalyzeRaised
    \/ AnalyzeReturned
    \/ Finish
    \/ (hpc = "analyzing" /\ analyze_workflow)

(* -------------------- direct calls of the helpers --------------------- *)

Returns(name, value) ==
    /\ callee' = name
    /\ ret' = value
    /\ UNCHANGED <<arg, analyzerVars, handlerVars>>

CallDeterminePinning ==
    /\ callee = "none"
    /\ IsStr(arg)
    /\ Returns("_determine_pinning_strategy", <<_determine_pinning_strategy(arg.s)>>)

CallExtractAction ==
    /\ callee = "none"
    /\ Returns("_extract_action_dependency", _extract_action_dependency(arg))

CallExtractRunner ==
    /\ callee = "none"
    /\ Returns("_extract_runner_dependencies", _extract_runner_dependencies(arg))

\* container is the job's `container` value itself
CallExtractContainer ==
    /\ callee = "none"
    /\ Returns("_extract_container_dependencies", _extract_container_dependencies(arg))

\* container is a mapping whose `image` is the value
CallExtractContainerImage ==
    /\ callee = "none"
    /\ Returns("_extract_container_dependencies image",
               _extract_container_dependencies(Dict(<<Item("image", arg)>>)))

NextUnit ==
    \/ CallDeterminePinning
    \/ CallExtractAction
    \/ CallExtractRunner
    \/ CallExtractContainer
    \/ CallExtractContainerImage

(* ------------------------------ inputs -------------------------------- *)

RECURSIVE Flatten(_)
\* The concatenation of a sequence of strings.
Flatten(ss) == IF ss = <<>> THEN <<>> ELSE Head(ss) \o Flatten(Tail(ss))

SeqsUpTo(S, n) == UNION {[1..k -> S] : k \in 0..n}

\* ShaLen - 1 hexadecimal characters: one more character makes a full-length ref.
AlmostSha == [i \in 1..(ShaLen - 1) |-> "a"]

Tokens == { AlmostSha, <<"a">>, <<"A">>, <<"\n">>, <<"1">>, <<"1", ".">>,
            <<"v", "1", ".">>, <<"@">>, <<":">>, <<"o", "/", "r">>,
            <<"m", "a", "i", "n">>, <<"d", "e", "v">>,
            DockerPrefix, DotSlash, DotDotSlash }

Strings == {Flatten(ts) : ts \in SeqsUpTo(Tokens, MaxTokens)}

UnitArgs ==
    {Str(s) : s \in Strings}
    \cup {PyNone, Int(1), Dict(<<>>),
          List(<<Str(<<"u">>), Int(1), Str(<<>>), Str(<<"w">>)>>)}

\* A key that the mapping does not have.
Absent == [t |-> "absent", s |-> <<>>, n |-> 0, e |-> <<>>, kv |-> <<>>]

IsPresent(item) == item.v # Absent

Mapping(items) == Dict(SelectSeq(items, IsPresent))

Job(runs_on, container, stepsValue) ==
    Mapping(<<Item("runs-on", runs_on), Item("container", container),
              Item("steps", stepsValue)>>)

Uses(s) == Dict(<<Item("uses", Str(s))>>)

Workflow(name, jobsValue) ==
    Mapping(<<Item("name", name), Item("on", Str(<<"p">>)), Item("jobs", jobsValue)>>)

Decoded(root) == [decodes |-> TRUE, root |-> root]

Undecodable == [decodes |-> FALSE, root |-> PyNone]

JobKeys == <<"build", "test", "lint", "deploy", "docs">>

Entries(values) == [i \in 1..Len(values) |-> Item(JobKeys[i], values[i])]

RunsOnValues ==
    { Absent, Str(<<>>), Str(<<"u">>),
      List(<<Str(<<"u">>), Int(1), Str(<<>>)>>),
      Dict(<<Item("group", Str(<<"g">>))>>) }

ContainerValues ==
    { Absent, Str(<<>>), Str(<<":", "t">>), Str(<<"h", ":", "5", ":", "1">>),
      Dict(<<Item("image", Str(<<"i", ":", "1">>))>>), Int(1) }

StepEntries ==
    { Str(<<"x">>), Dict(<<Item("run", Str(<<"x">>))>>),
      Uses(<<"o", "@", "v", "1">>), Uses(<<"@", "v", "1">>),
      Uses(DockerPrefix), Uses(<<".", "/", "l">>) }

StepsValues ==
    { Absent, PyNone, Int(1), Str(<<"a", "b">>), Dict(<<Item("a", Str(<<"b">>))>>) }
    \cup {List(e) : e \in SeqsUpTo(StepEntries, MaxSteps)}

\* Documents that have no walk, or one job with every combination of field values.
OneJobDocuments ==
    { Undecodable, Decoded(List(<<>>)), Decoded(Str(<<"x">>)), Decoded(PyNone),
      Decoded(Dict(<<>>)) }
    \cup {Decoded(Workflow(Str(<<"C", "I">>), j)) :
            j \in {PyNone, Int(1), Str(<<"x">>), List(<<>>)}}
    \cup {Decoded(Workflow(Absent, Dict(Entries(<<Job(r, c, s)>>)))) :
            r \in RunsOnValues, c \in ContainerValues, s \in StepsValues}

StepPalette ==
    << Uses(<<"o", "@", "v", "1">>), Uses(<<"p">>), Str(<<"x">>),
       Uses(<<"q", "@", "m", "a", "i", "n">>), Uses(<<"r">>) >>

JobValues ==
    { Int(1) }
    \cup { Job(r, c, s) :
             r \in {Absent, List(<<Str(<<"u">>), Str(<<"w">>)>>)},
             c \in {Absent, Str(<<"i", ":", "1">>)},
             s \in {List(SubSeq(StepPalette, 1, MaxSteps))} }

\* Documents of up to MaxJobs job entries.
ManyJobDocuments ==
    {Decoded(Workflow(Str(<<"C", "I">>), Dict(Entries(vs)))) :
        vs \in SeqsUpTo(JobValues, MaxJobs)}

Documents == OneJobDocuments \cup ManyJobDocuments

FullJob ==
    Job(Str(<<"u">>), Str(<<"i", ":", "1">>), List(<<Uses(<<"o", "@", "v", "1">>)>>))

HandlerRecords ==
    { [parses |-> FALSE, fetches |-> FALSE, content |-> Undecodable],
      [parses |-> TRUE, fetches |-> FALSE, content |-> Undecodable] }
    \cup { [parses |-> TRUE, fetches |-> TRUE, content |-> c] :
             c \in { Undecodable,
                     Decoded(List(<<>>)),
                     Decoded(Workflow(Str(<<"C", "I">>), PyNone)),
                     Decoded(Workflow(Str(<<"C", "I">>), Dict(Entries(<<FullJob>>)))),
                     Decoded(Workflow(Date, Dict(Entries(<<FullJob>>)))),
                     Decoded(Workflow(Absent, Dict(Entries(<<Job(Absent, Absent, PyNone)>>)))) } }

(* --------------------------- specifications --------------------------- *)

AnalyzerIdle ==
    /\ workflow_content = Undecodable
    /\ pc = "idle"
    /\ jobs = Dict(<<>>)
    /\ job_index = 0
    /\ steps = List(<<>>)
    /\ step_index = 0
    /\ dependencies = <<>>
    /\ jobs_list = <<>>
    /\ total_steps = 0
    /\ result = NoResult
    /\ exc = "none"

HandlerIdle ==
    /\ github_token = FALSE
    /\ records = <<>>
    /\ record_index = 0
    /\ hpc = "idle"
    /\ processed_count = 0
    /\ failed_count = 0
    /\ response = NoResponse

UnitIdle ==
    /\ arg = PyNone
    /\ callee = "idle"
    /\ ret = <<>>

\* analyze_workflow is called on a document.
Init ==
    /\ workflow_content \in Documents
    /\ pc = "load"
    /\ jobs = Dict(<<>>)
    /\ job_index = 0
    /\ steps = List(<<>>)
    /\ step_index = 0
    /\ dependencies = <<>>
    /\ jobs_list = <<>>
    /\ total_steps = 0
    /\ result = NoResult
    /\ exc = "none"
    /\ HandlerIdle
    /\ UnitIdle

Next == analyze_workflow

Spec == Init /\ [][Next]_vars

\* lambda_handler is invoked on an event.
InitHandler ==
    /\ github_token \in BOOLEAN
    /\ records \in SeqsUpTo(HandlerRecords, MaxRecords)
    /\ record_index = 0
    /\ hpc = "enter"
    /\ processed_count = 0
    /\ failed_count = 0
    /\ response = NoResponse
    /\ AnalyzerIdle
    /\ UnitIdle

SpecHandler == InitHandler /\ [][lambda_handler]_vars

\* One helper is called on one argument.
InitUnit ==
    /\ arg \in UnitArgs
    /\ callee = "none"
    /\ ret = <<>>
    /\ AnalyzerIdle
    /\ HandlerIdle

SpecUnit == InitUnit /\ [][NextUnit]_vars

(* ------------------- claims on the helpers (SpecUnit) ----------------- *)

Count(s, c) == Cardinality({i \in 1..Len(s) : s[i] = c})

Before(s, c) == SubSeq(s, 1, Find(s, c) - 1)

After(s, c) == From(s, Find(s, c) + 1)

AllHexLower(s) == \A i \in 1..Len(s) : s[i] \in HexLower

\* A non-empty `uses` that is neither a docker:// nor a local reference.
IsActionReference(v) ==
    /\ IsStr(v)
    /\ v.s # <<>>
    /\ ~StartsWith(v.s, DockerPrefix)
    /\ ~StartsWith(v.s, DotSlash)
    /\ ~StartsWith(v.s, DotDotSlash)

\* C3: for a non-empty `uses` that starts with none of docker://, ./ and ../,
\* _extract_action_dependency returns one action dependency whose
\* raw_reference is `uses`; with exactly one @ its name is the part before the
\* @, its version the part after it and its pinning the pinning rule's answer
\* for that version, which is never unpinned; with no @ or more than one, its
\* name is `uses`, it has no version and it is unpinned.
C3_ActionReference ==
    (callee = "_extract_action_dependency" /\ IsActionReference(arg)) =>
        /\ Len(ret) = 1
        /\ ret[1].type = "action"
        /\ ret[1].raw_reference = arg.s
        /\ IF Count(arg.s, "@") = 1
           THEN /\ ret[1].name = Before(arg.s, "@")
                /\ ret[1].version = Str(After(arg.s, "@"))
                /\ ret[1].pinning_strategy = _determine_pinning_strategy(After(arg.s, "@"))
                /\ ret[1].pinning_strategy # "unpinned"
           ELSE /\ ret[1].name = arg.s
                /\ ret[1].version = PyNone
                /\ ret[1].pinning_strategy = "unpinned"

\* A reference name@ref has been classified as one to a branch.
C3_Witness ==
    /\ callee = "_extract_action_dependency"
    /\ IsActionReference(arg)
    /\ Count(arg.s, "@") = 1
    /\ Len(ret) = 1
    /\ ret[1].name # <<>>
    /\ ret[1].pinning_strategy = "branch"

\* C4: the pinning rule answers sha exactly for the refs of ShaLen lowercase
\* hexadecimal characters, else tag for a ref that starts like a semantic
\* version, else branch for one of the four branch names, else tag; it never
\* answers unpinned.
C4_PinningRule ==
    callee = "_determine_pinning_strategy" =>
        /\ ret[1] # "unpinned"
        /\ ret[1] = IF Len(arg.s) = ShaLen /\ AllHexLower(arg.s) THEN "sha"
                    ELSE IF MatchSemver(arg.s) THEN "tag"
                    ELSE IF arg.s \in BranchNames THEN "branch"
                    ELSE "tag"

\* The reference a container dependency is made from, on each of the three ways
\* to one: the job's `container` string, the `image` of a `container` mapping,
\* and what follows docker:// in a step's `uses`.
IsContainerCall ==
    /\ IsStr(arg)
    /\ \/ callee = "_extract_container_dependencies"
       \/ callee = "_extract_container_dependencies image" /\ arg.s # <<>>
       \/ callee = "_extract_action_dependency" /\ StartsWith(arg.s, DockerPrefix)

ContainerReference ==
    IF callee = "_extract_action_dependency"
    THEN From(arg.s, Len(DockerPrefix) + 1)
    ELSE arg.s

\* C5: a container reference is split at its first colon only: the name is
\* what precedes it, the version everything that follows it, the pinning tag;
\* without a colon the name is the reference, there is no version and the
\* pinning is unpinned.
C5_ContainerSplit ==
    IsContainerCall =>
        /\ Len(ret) = 1
        /\ ret[1].type = "container"
        /\ IF Contains(ContainerReference, ":")
           THEN /\ ret[1].name = Before(ContainerReference, ":")
                /\ ret[1].version = Str(After(ContainerReference, ":"))
                /\ ret[1].pinning_strategy = "tag"
           ELSE /\ ret[1].name = ContainerReference
                /\ ret[1].version = PyNone
                /\ ret[1].pinning_strategy = "unpinned"

(* --------------- claims on analyze_workflow (Spec) -------------------- *)

IsMappingItem(item) == item.v.t = "dict"

\* The job entries whose value is a mapping, in document order.
MappingItems(items) == SelectSeq(items, IsMappingItem)

RunnerRecords(config) ==
    LET runs_on == Get(config, "runs-on", PyNone)
    IN IF Truthy(runs_on) THEN _extract_runner_dependencies(runs_on) ELSE <<>>

ContainerRecords(config) ==
    LET container == Get(config, "container", PyNone)
    IN IF Truthy(container) THEN _extract_container_dependencies(container) ELSE <<>>

StepRecord(step) ==
    LET uses == Get(step, "uses", PyNone)
    IN IF IsDict(step) /\ Truthy(uses) THEN _extract_action_dependency(uses) ELSE <<>>

RECURSIVE StepRecords(_, _)
\* The records of the first n steps, in step order.
StepRecords(elements, n) ==
    IF n = 0 THEN <<>>
    ELSE StepRecords(elements, n - 1) \o StepRecord(elements[n])

StepsOf(config) == Get(config, "steps", List(<<>>))

\* One job's records: runners, then container, then steps.
JobRecords(config) ==
    RunnerRecords(config) \o ContainerRecords(config)
        \o StepRecords(Iterate(StepsOf(config)), Len(Iterate(StepsOf(config))))

RECURSIVE RecordsOf(_)
\* The records of a sequence of jobs: job after job.
RecordsOf(items) ==
    IF items = <<>> THEN <<>>
    ELSE JobRecords(Head(items).v) \o RecordsOf(Tail(items))

IsPrefix(s, u) == Len(s) <= Len(u) /\ SubSeq(u, 1, Len(s)) = s

\* The records of the jobs the walk has finished.
Finished(n) == RecordsOf(MappingItems(SubSeq(jobs.kv, 1, n)))

\* C1: the call raises only for a text that does not decode and for a decoded
\* root that is no mapping; a document whose root is a mapping never raises.
C1_OnlyTwoErrors ==
    pc = "raised" =>
        \/ ~workflow_content.decodes /\ exc = "ValueError: Invalid YAML"
        \/ /\ workflow_content.decodes
           /\ ~IsDict(workflow)
           /\ exc = "ValueError: Workflow must be a YAML dictionary"

RECURSIVE ListedSteps(_)
\* Over the jobs that are mappings: the length of `steps` when it is a
\* sequence, nothing otherwise.
ListedSteps(items) ==
    IF items = <<>> THEN 0
    ELSE (IF IsList(StepsOf(Head(items).v)) THEN Len(StepsOf(Head(items).v).e) ELSE 0)
         + ListedSteps(Tail(items))

\* C2: total_steps of a result is the sum, over the jobs that are mappings, of
\* the length of `steps` where it is a sequence.
C2_TotalSteps ==
    pc = "returned" => result.total_steps = ListedSteps(MappingItems(jobs.kv))

\* C6: no dependency record of a result has an empty name.
C6_NameNeverEmpty ==
    pc = "returned" =>
        \A i \in 1..Len(result.dependencies) : result.dependencies[i].name # <<>>

\* C7: the dependencies follow the traversal: the records of the finished
\* jobs in document order, then of the job at hand its runner records, then
\* its container record, then the records of its steps taken so far; the list
\* built so far is at every point a prefix of the list of the whole document,
\* which is the list of the result.
C7_TraversalOrder ==
    /\ pc = "for_job" => dependencies = Finished(job_index)
    /\ pc = "runs_on" => dependencies = Finished(job_index - 1)
    /\ pc = "container" =>
         dependencies = Finished(job_index - 1) \o RunnerRecords(job_config)
    /\ pc = "steps" =>
         dependencies = Finished(job_index - 1) \o RunnerRecords(job_config)
                            \o ContainerRecords(job_config)
    /\ pc = "for_step" =>
         dependencies = Finished(job_index - 1) \o RunnerRecords(job_config)
                            \o ContainerRecords(job_config)
                            \o StepRecords(Iterate(steps), step_index)
    /\ pc \in {"for_job", "runs_on", "container", "steps", "for_step"} =>
         IsPrefix(dependencies, Finished(Len(jobs.kv)))
    /\ pc = "returned" => result.dependencies = Finished(Len(jobs.kv))

\* A result of two jobs or more, each with two runners, a container and two
\* step records.
C7_Witness ==
    /\ pc = "returned"
    /\ Len(result.jobs) >= 2
    /\ Len(result.dependencies) >= 5 * Len(result.jobs)

RECURSIVE CountedSteps(_)
CountedSteps(items) ==
    IF items = <<>> THEN 0
    ELSE PyLen(StepsOf(Head(items).v)) + CountedSteps(Tail(items))

\* C8: the jobs of a result are the keys of the entries whose value is a
\* mapping, in document order; the other entries leave no trace: the result is
\* that of the document without them.
C8_JobsList ==
    pc = "returned" =>
        LET kept == MappingItems(jobs.kv)
        IN /\ result.jobs = [i \in 1..Len(kept) |-> kept[i].k]
           /\ result.total_steps = CountedSteps(kept)
           /\ result.dependencies = RecordsOf(kept)

\* A result for a document with an entry that is no mapping between two that are.
C8_Witness ==
    /\ pc = "returned"
    /\ Len(jobs.kv) = 3
    /\ IsDict(jobs.kv[1].v)
    /\ ~IsDict(jobs.kv[2].v)
    /\ IsDict(jobs.kv[3].v)
    /\ result.jobs = <<jobs.kv[1].k, jobs.kv[3].k>>
    /\ Len(result.dependencies) > 0

Runner(name) == WorkflowDependency("runner", name, PyNone, "unpinned", name)

\* One runner record per string element, in the listed order.
RunnersOfList(e) ==
    LET strs == SelectSeq(e, IsStr) IN [i \in 1..Len(strs) |-> Runner(strs[i].s)]

OnlyUnpinnedRunners ==
    \A i \in 1..Len(dependencies) :
        dependencies[i].type = "runner" =>
            /\ dependencies[i].version = PyNone
            /\ dependencies[i].pinning_strategy = "unpinned"

runs_on_value == Get(job_config, "runs-on", PyNone)

\* C9 as stated: a `runs-on` string gives one runner record, a sequence one
\* per string element in the listed order, any other value none; a runner
\* record has no version and is unpinned.
C9_RunnerRecordsAsStated ==
    /\ OnlyUnpinnedRunners
    /\ pc = "container" =>
         dependencies = Finished(job_index - 1) \o
            (IF IsStr(runs_on_value) THEN <<Runner(runs_on_value.s)>>
             ELSE IF IsList(runs_on_value) THEN RunnersOfList(runs_on_value.e)
             ELSE <<>>)

\* C9, amended: a non-empty `runs-on` string gives one runner record, the
\* empty string none, a sequence one per string element (the empty string
\* included) in the listed order, any other value none; a runner record has no
\* version and is unpinned.
C9_RunnerRecords ==
    /\ OnlyUnpinnedRunners
    /\ pc = "container" =>
         dependencies = Finished(job_index - 1) \o
            (IF IsStr(runs_on_value)
             THEN (IF runs_on_value.s = <<>> THEN <<>> ELSE <<Runner(runs_on_value.s)>>)
             ELSE IF IsList(runs_on_value) THEN RunnersOfList(runs_on_value.e)
             ELSE <<>>)

\* The runner records of a sequence with an element that is no string.
C9_Witness ==
    /\ pc = "container"
    /\ IsList(runs_on_value)
    /\ \E i \in 1..Len(runs_on_value.e) : ~IsStr(runs_on_value.e[i])
    /\ Len(dependencies) = 2

(* --------------- claim on lambda_handler (SpecHandler) ---------------- *)

\* analyze_workflow returns on this text: it decodes to a mapping, `jobs` is a
\* mapping and every job's `steps` has a length.
AnalysisSucceeds(content) ==
    /\ content.decodes
    /\ IsDict(content.root)
    /\ LET js == Get(content.root, "jobs", Dict(<<>>))
       IN /\ IsDict(js)
          /\ \A i \in 1..Len(js.kv) :
                IsDict(js.kv[i].v) => HasLen(StepsOf(js.kv[i].v))

Succeeds(r) == r.parses /\ r.fetches /\ AnalysisSucceeds(r.content)

\* C10: with the token set, after every record handled processed + failed is
\* the number of records handled, a record counts as processed exactly when
\* its parse, its fetch and its analysis succeeded, and the handler ends with
\* status 200 and the two counts of all the records.
C10_RecordOutcomes ==
    /\ hpc \in {"for_record", "done"} =>
         /\ processed_count + failed_count = record_index
         /\ processed_count =
              Cardinality({i \in 1..record_index : Succeeds(records[i])})
    /\ hpc = "done" =>
         /\ record_index = Len(records)
         /\ response = [statusCode |-> 200, processed |-> processed_count,
                        failed |-> failed_count]

====
